---- MODULE Spec2Model ----
(***************************************************************************)
(* Model of json_extractor_nonapi.py: the flattening of one Pefindo JSON   *)
(* report into child tables.                                               *)
(*                                                                         *)
(* A column name is the sequence of its characters, so that the substring  *)
(* replacement of clean_column_names is computed and not assumed.  A cell  *)
(* is a tagged value (string, number, list of dicts, NaN, None).  A        *)
(* DataFrame is its set of column labels and the sequence of its rows (a   *)
(* row is a function from the labels to cells); a call that raises is the  *)
(* value Raise(exception).  The inputs never hold two labels that clean to *)
(* the same name, so a label identifies one column throughout.             *)
(***************************************************************************)
EXTENDS Integers, Sequences, FiniteSets, TLC

VARIABLES
    json_df,      \* extract_pefindo_data: the loaded one-row table
    dfs,          \* extract_pefindo_data: the tables built so far
    pc,           \* extract_pefindo_data: the next step, "done" or "raised"
    err,          \* the step whose call raised ("" when none did)
    arg_df,       \* a single call: the table argument
    arg_column,   \* a single call: column_name
    arg_cols,     \* a single call: cols_to_add
    all_rows,     \* a single call: the list all_rows when the loop ended
    result,       \* a single call: the value returned (or Raise)
    called,       \* a single call: "" before it, then the function's name
    columns       \* clean_column_names alone: df.columns before and after each call

vars == <<json_df, dfs, pc, err, arg_df, arg_column, arg_cols, all_rows, result,
          called, columns>>

(***************************************************************************)
(* Bounds of the model.                                                    *)
(***************************************************************************)
MaxArr == 2
MaxFac == 2
MaxFrags == 3

(***************************************************************************)
(* Column names, as character sequences.                                   *)
(***************************************************************************)
report_debitur_ ==
    <<"r", "e", "p", "o", "r", "t", ".", "d", "e", "b", "i", "t", "u", "r", ".">>
report_header_ ==
    <<"r", "e", "p", "o", "r", "t", ".", "h", "e", "a", "d", "e", "r", ".">>
report_debitur ==
    <<"r", "e", "p", "o", "r", "t", ".", "d", "e", "b", "i", "t", "u", "r">>
report_ ==
    <<"r", "e", "p", "o", "r", "t", ".">>
username ==
    <<"u", "s", "e", "r", "n", "a", "m", "e">>
nomor_identitas ==
    <<"n", "o", "m", "o", "r", "_", "i", "d", "e", "n", "t", "i", "t", "a", "s">>
id_report ==
    <<"i", "d", "_", "r", "e", "p", "o", "r", "t">>
tgl_permintaan ==
    <<"t", "g", "l", "_", "p", "e", "r", "m", "i", "n", "t", "a", "a", "n">>
npwp ==
    <<"n", "p", "w", "p">>
email ==
    <<"e", "m", "a", "i", "l">>
telepon ==
    <<"t", "e", "l", "e", "p", "o", "n">>
nomor_rekening_fasilitas ==
    <<"n", "o", "m", "o", "r", "_", "r", "e", "k", "e", "n", "i", "n", "g", "_", "f", "a", "s", "i", "l", "i", "t", "a", "s">>
id_jenis_fasilitas ==
    <<"i", "d", "_", "j", "e", "n", "i", "s", "_", "f", "a", "s", "i", "l", "i", "t", "a", "s">>
id_pelapor ==
    <<"i", "d", "_", "p", "e", "l", "a", "p", "o", "r">>
id_jenis_pelapor ==
    <<"i", "d", "_", "j", "e", "n", "i", "s", "_", "p", "e", "l", "a", "p", "o", "r">>
id_jenis_kredit ==
    <<"i", "d", "_", "j", "e", "n", "i", "s", "_", "k", "r", "e", "d", "i", "t">>
id_sifat_kredit ==
    <<"i", "d", "_", "s", "i", "f", "a", "t", "_", "k", "r", "e", "d", "i", "t">>
scoring ==
    <<"s", "c", "o", "r", "i", "n", "g">>
riwayat_fasilitas ==
    <<"r", "i", "w", "a", "y", "a", "t", "_", "f", "a", "s", "i", "l", "i", "t", "a", "s">>
agunan ==
    <<"a", "g", "u", "n", "a", "n">>
penjamin ==
    <<"p", "e", "n", "j", "a", "m", "i", "n">>
tunggakan_pokok ==
    <<"t", "u", "n", "g", "g", "a", "k", "a", "n", "_", "p", "o", "k", "o", "k">>
snapshot_order ==
    <<"s", "n", "a", "p", "s", "h", "o", "t", "_", "o", "r", "d", "e", "r">>
status_tunggakan ==
    <<"s", "t", "a", "t", "u", "s", "_", "t", "u", "n", "g", "g", "a", "k", "a", "n">>
\* Keys of the nested objects that the code never names.
kode ==
    <<"k", "o", "d", "e">>
baki_debet ==
    <<"b", "a", "k", "i", "_", "d", "e", "b", "e", "t">>
bulan ==
    <<"b", "u", "l", "a", "n">>
nama ==
    <<"n", "a", "m", "a">>
fasilitas ==
    <<"f", "a", "s", "i", "l", "i", "t", "a", "s">>
permintaan_data ==
    <<"p", "e", "r", "m", "i", "n", "t", "a", "a", "n", "_", "d", "a", "t", "a">>
summary_permintaan_data ==
    <<"s", "u", "m", "m", "a", "r", "y", "_">> \o permintaan_data
riwayat_identitas_debitur ==
    <<"r", "i", "w", "a", "y", "a", "t", "_", "i", "d", "e", "n", "t", "i", "t", "a", "s",
      "_", "d", "e", "b", "i", "t", "u", "r">>
summary_riwayat_debitur ==
    <<"s", "u", "m", "m", "a", "r", "y", "_", "r", "i", "w", "a", "y", "a", "t", "_",
      "d", "e", "b", "i", "t", "u", "r">>

report_fasilitas == report_ \o fasilitas
report_permintaan_data == report_ \o permintaan_data
report_summary_permintaan_data == report_ \o summary_permintaan_data
report_riwayat_identitas_debitur == report_ \o riwayat_identitas_debitur
report_summary_riwayat_debitur == report_ \o summary_riwayat_debitur

\* cols_basic, line 126, and the two carry lists of lines 68 and 130 (the same list).
cols_basic ==
    { report_header_ \o username, report_debitur_ \o nomor_identitas,
      report_header_ \o id_report, report_header_ \o tgl_permintaan,
      report_debitur_ \o npwp, report_debitur_ \o email, report_debitur_ \o telepon }
cols_facilities ==
    { username, nomor_identitas, id_report, tgl_permintaan, npwp, email, telepon,
      nomor_rekening_fasilitas, id_jenis_fasilitas, id_pelapor, id_jenis_pelapor,
      id_jenis_kredit, id_sifat_kredit }
cols_to_add_history == cols_facilities

(***************************************************************************)
(* Cells and tables.                                                       *)
(***************************************************************************)
Str(x) == [k |-> "str", s |-> x, n |-> 0, l |-> <<>>]
Num(x) == [k |-> "num", s |-> "", n |-> x, l |-> <<>>]
List(x) == [k |-> "list", s |-> "", n |-> 0, l |-> x]
NaN == [k |-> "nan", s |-> "", n |-> 0, l |-> <<>>]
None == [k |-> "none", s |-> "", n |-> 0, l |-> <<>>]

Frame(cols, rows) == [ok |-> TRUE, exc |-> "", cols |-> cols, rows |-> rows]
Raise(e) == [ok |-> FALSE, exc |-> e, cols |-> {}, rows |-> <<>>]
\* pd.DataFrame(): no column, no row.
EmptyFrame == Frame({}, <<>>)

\* Python's truth value of a cell: "if item_list:".
Truthy(v) ==
    CASE v.k = "list" -> Len(v.l) > 0
      [] v.k = "nan"  -> TRUE
      [] v.k = "none" -> FALSE
      [] v.k = "str"  -> v.s # ""
      [] OTHER        -> v.n # 0

\* pd.DataFrame(item_list) of a list of dicts: the union of the keys, NaN where
\* an element has no such key.
DataFrame(item_list) ==
    LET keys == UNION {DOMAIN item_list[j] : j \in 1..Len(item_list)}
    IN  Frame(keys,
              [j \in 1..Len(item_list) |->
                  [c \in keys |-> IF c \in DOMAIN item_list[j]
                                  THEN item_list[j][c] ELSE NaN]])

\* temp_df[col] = v: the scalar v on every row, a new column or an overwritten one.
SetColumn(df, col, v) ==
    Frame(df.cols \cup {col},
          [j \in 1..Len(df.rows) |->
              [c \in df.cols \cup {col} |-> IF c = col THEN v ELSE df.rows[j][c]]])

\* A slip: the carry columns are never copied onto the sub-table.
SetColumns_NotCarried(df, cols, source) == df

RECURSIVE SetColumns(_, _, _)
\* for col in cols_to_add: temp_df[col] = source[col]
SetColumns(df, cols, source) ==
    IF cols = {} THEN df
    ELSE LET col == CHOOSE c \in cols : TRUE
         IN  SetColumns(SetColumn(df, col, source[col]), cols \ {col}, source)

RECURSIVE FlattenRows(_, _)
FlattenRows(frames, cols) ==
    IF frames = <<>> THEN <<>>
    ELSE LET f == Head(frames)
         IN  [j \in 1..Len(f.rows) |->
                 [c \in cols |-> IF c \in f.cols THEN f.rows[j][c] ELSE NaN]]
             \o FlattenRows(Tail(frames), cols)

RECURSIVE Reversed(_)
Reversed(q) == IF q = <<>> THEN <<>> ELSE Append(Reversed(Tail(q)), Head(q))
\* A slip: the frames are concatenated last to first.
Concat_Reversed(frames) ==
    IF frames = <<>> THEN Raise("ValueError")
    ELSE LET cols == UNION {frames[i].cols : i \in 1..Len(frames)}
         IN  Frame(cols, FlattenRows(Reversed(frames), cols))

\* pd.concat(all_rows, ignore_index=True): the frames' rows in list order over
\* the union of their columns; an empty list raises.
Concat(frames) ==
    IF frames = <<>> THEN Raise("ValueError")
    ELSE LET cols == UNION {frames[i].cols : i \in 1..Len(frames)}
         IN  Frame(cols, FlattenRows(frames, cols))

(***************************************************************************)
(* clean_column_names                                                      *)
(***************************************************************************)
StartsWith(s, p) == Len(s) >= Len(p) /\ SubSeq(s, 1, Len(p)) = p

RECURSIVE Contains(_, _)
\* Python's "p in s" on strings.
Contains(s, p) ==
    IF Len(s) < Len(p) THEN FALSE
    ELSE StartsWith(s, p) \/ Contains(Tail(s), p)

RECURSIVE str_replace(_, _)
\* s.replace(old, ''): every non-overlapping occurrence, scanning from the left.
str_replace(s, old) ==
    IF Len(s) < Len(old) \/ old = <<>> THEN s
    ELSE IF StartsWith(s, old)
         THEN str_replace(SubSeq(s, Len(old) + 1, Len(s)), old)
         ELSE <<Head(s)>> \o str_replace(Tail(s), old)

\* One label through lines 19 and 20.
clean_name(c) == str_replace(str_replace(c, report_debitur_), report_header_)

clean_column_names(df) ==
    LET cols == {clean_name(c) : c \in df.cols}
    IN  Frame(cols,
              [j \in 1..Len(df.rows) |->
                  [c2 \in cols |->
                      df.rows[j][CHOOSE c \in df.cols : clean_name(c) = c2]]])

(***************************************************************************)
(* extract_list_to_dataframe                                               *)
(***************************************************************************)
\* What one pass of a loop body leaves: it raised (exc), it appended nothing
\* (add = FALSE), or it appended frame.
Raised(e) == [ok |-> FALSE, exc |-> e, add |-> FALSE, frame |-> EmptyFrame]
Skipped == [ok |-> TRUE, exc |-> "", add |-> FALSE, frame |-> EmptyFrame]
Appended(f) == [ok |-> TRUE, exc |-> "", add |-> TRUE, frame |-> f]

\* A slip: the carry values are read from row 0 and not from row i.
ExpandRow_FirstParent(df, column_name, cols_to_add, i) ==
    IF column_name \notin df.cols THEN Raised("KeyError")
    ELSE LET item_list == df.rows[i][column_name]
         IN  IF ~Truthy(item_list) THEN Skipped
             ELSE IF item_list.k # "list" THEN Raised("ValueError")
             ELSE IF ~(cols_to_add \subseteq df.cols) THEN Raised("KeyError")
             ELSE Appended(SetColumns(DataFrame(item_list.l), cols_to_add, df.rows[1]))

\* A slip: the carry values are read before the array is looked at.
ExpandRow_CarryFirst(df, column_name, cols_to_add, i) ==
    IF column_name \notin df.cols \/ ~(cols_to_add \subseteq df.cols)
    THEN Raised("KeyError")
    ELSE LET item_list == df.rows[i][column_name]
         IN  IF ~Truthy(item_list) THEN Skipped
             ELSE IF item_list.k # "list" THEN Raised("ValueError")
             ELSE Appended(SetColumns(DataFrame(item_list.l), cols_to_add, df.rows[i]))

\* Lines 39-47, pass i of the loop.
ExpandRow(df, column_name, cols_to_add, i) ==
    IF column_name \notin df.cols THEN Raised("KeyError")
    ELSE LET item_list == df.rows[i][column_name]
         IN  IF ~Truthy(item_list) THEN Skipped
             ELSE IF item_list.k # "list" THEN Raised("ValueError")
             ELSE IF ~(cols_to_add \subseteq df.cols) THEN Raised("KeyError")
             ELSE Appended(SetColumns(DataFrame(item_list.l), cols_to_add, df.rows[i]))

\* The loop of a function over the rows 0..len-1 with body Body(i): the
\* exception of the first pass that raises, else the frames appended, in order.
RunLoop(passes) ==
    LET bad == {i \in 1..Len(passes) : ~passes[i].ok}
        kept == SelectSeq(passes, LAMBDA p : p.add)
    IN  IF bad # {}
        THEN [ok |-> FALSE,
              exc |-> passes[CHOOSE i \in bad : \A j \in bad : i <= j].exc,
              frames |-> <<>>]
        ELSE [ok |-> TRUE, exc |-> "",
              frames |-> [j \in 1..Len(kept) |-> kept[j].frame]]

\* A slip: the array column is read once, before the loop.
expand_all_rows_ColumnFirst(df, column_name, cols_to_add) ==
    IF column_name \notin df.cols
    THEN [ok |-> FALSE, exc |-> "KeyError", frames |-> <<>>]
    ELSE RunLoop([i \in 1..Len(df.rows) |->
                     IF ~Truthy(df.rows[i][column_name]) THEN Skipped
                     ELSE IF df.rows[i][column_name].k # "list" THEN Raised("ValueError")
                     ELSE IF ~(cols_to_add \subseteq df.cols) THEN Raised("KeyError")
                     ELSE Appended(SetColumns(DataFrame(df.rows[i][column_name].l),
                                              cols_to_add, df.rows[i]))])

\* all_rows when the loop of lines 38-47 ends.
expand_all_rows(df, column_name, cols_to_add) ==
    RunLoop([i \in 1..Len(df.rows) |-> ExpandRow(df, column_name, cols_to_add, i)])

\* A slip: no case for an empty all_rows, which pd.concat refuses.
ExpandResult_NoEmptyCase(loop) ==
    IF ~loop.ok THEN Raise(loop.exc)
    ELSE IF loop.frames = <<>> THEN Concat(loop.frames)
    ELSE clean_column_names(Concat(loop.frames))

\* Lines 49-53.
ExpandResult(loop) ==
    IF ~loop.ok THEN Raise(loop.exc)
    ELSE IF loop.frames # <<>> THEN clean_column_names(Concat(loop.frames))
    ELSE EmptyFrame

extract_list_to_dataframe(df, column_name, cols_to_add) ==
    ExpandResult(expand_all_rows(df, column_name, cols_to_add))

(***************************************************************************)
(* extract_facilities_history                                              *)
(***************************************************************************)
NoKeys == [found |-> FALSE, exc |-> "", keys |-> {}]

RECURSIVE SampleKeysFrom(_, _)
\* Lines 74-78 from row i on: the keys of the first element of the first truthy
\* riwayat_fasilitas; subscripting a truthy value that is no list raises.
SampleKeysFrom(df, i) ==
    IF i > Len(df.rows) THEN NoKeys
    ELSE LET riwayat == df.rows[i][riwayat_fasilitas]
         IN  IF ~Truthy(riwayat) THEN SampleKeysFrom(df, i + 1)
             ELSE IF riwayat.k # "list"
                  THEN [found |-> FALSE, exc |-> "TypeError", keys |-> {}]
                  ELSE [found |-> TRUE, exc |-> "", keys |-> DOMAIN riwayat.l[1]]

sample_keys(df) == SampleKeysFrom(df, 1)

\* A slip: >= for >.
StatusTunggakan_NonNegative(v) == IF v.k = "num" /\ v.n >= 0 THEN 1 ELSE 0

\* Line 99: 1 if tunggakan_pokok > 0 else 0; NaN > 0 is False.
StatusTunggakan(v) == IF v.k = "num" /\ v.n > 0 THEN 1 ELSE 0

\* A slip: a facility without history contributes nothing.
SynthRow_Skipped(df, matching_cols, i) == Skipped

\* Lines 95-104, the row synthesized for facility i.
SynthRow(df, matching_cols, i) ==
    IF tunggakan_pokok \notin df.cols THEN Raised("KeyError")
    ELSE IF df.rows[i][tunggakan_pokok].k \notin {"num", "nan"}
         THEN Raised("TypeError")
    ELSE IF ~(cols_to_add_history \subseteq df.cols) THEN Raised("KeyError")
    ELSE LET picked == Frame(matching_cols,
                             <<[c \in matching_cols |-> df.rows[i][c]]>>)
             ordered == SetColumn(picked, snapshot_order, Num(1))
             flagged == SetColumn(ordered, status_tunggakan,
                                  Num(StatusTunggakan(df.rows[i][tunggakan_pokok])))
         IN  Appended(SetColumns(flagged, cols_to_add_history, df.rows[i]))

\* Lines 83-104, pass i of the second loop.
HistoryRow(df, matching_cols, i) ==
    LET riwayat_list == df.rows[i][riwayat_fasilitas]
    IN  IF Truthy(riwayat_list)
        THEN IF riwayat_list.k # "list" THEN Raised("ValueError")
             ELSE IF ~(cols_to_add_history \subseteq df.cols) THEN Raised("KeyError")
             ELSE Appended(SetColumns(DataFrame(riwayat_list.l),
                                      cols_to_add_history, df.rows[i]))
        ELSE SynthRow(df, matching_cols, i)

\* all_rows when the loop of lines 82-104 ends, or the exception of lines 74-80:
\* no riwayat_fasilitas column, or "col in None" for the first column.
history_all_rows(df) ==
    IF riwayat_fasilitas \notin df.cols
    THEN [ok |-> FALSE, exc |-> "KeyError", frames |-> <<>>]
    ELSE LET sample == sample_keys(df)
         IN  IF sample.exc # ""
             THEN [ok |-> FALSE, exc |-> sample.exc, frames |-> <<>>]
             ELSE IF ~sample.found
             THEN [ok |-> FALSE, exc |-> "TypeError", frames |-> <<>>]
             ELSE RunLoop([i \in 1..Len(df.rows) |->
                              HistoryRow(df, df.cols \cap sample.keys, i)])

\* Lines 106-107.
HistoryResult(loop) ==
    IF ~loop.ok THEN Raise(loop.exc)
    ELSE IF loop.frames = <<>> THEN Concat(loop.frames)
    ELSE clean_column_names(Concat(loop.frames))

extract_facilities_history(df) == HistoryResult(history_all_rows(df))

(***************************************************************************)
(* The reports the model loads.  A report is described by which identifier *)
(* is null or missing, how long each array is (-1: the key is absent) and  *)
(* its facilities; the loaded table is the one row json_normalize makes of *)
(* it (load_json_data, lines 10-14).                                       *)
(***************************************************************************)
ArrSpec == -1..MaxArr
\* riwayat_fasilitas: absent, empty, or n snapshots whose first has the keys of
\* kind `first`.
HistSpec ==
    {[n |-> -1, first |-> 1], [n |-> 0, first |-> 1]}
        \cup [n : 1..MaxArr, first : {1, 2}]

Elem(id) == [c \in {kode} |-> Num(id)]
Array(base, n) == List([j \in 1..n |-> Elem(base + j)])

HistElem(kind, i, j) ==
    IF kind = 1
    THEN [c \in {snapshot_order, status_tunggakan, tunggakan_pokok} |->
             IF c = snapshot_order THEN Num(j)
             ELSE IF c = status_tunggakan THEN Num(0)
             ELSE Num(100 * i + j)]
    ELSE [c \in {snapshot_order, status_tunggakan, baki_debet, bulan} |->
             IF c = snapshot_order THEN Num(j)
             ELSE IF c = status_tunggakan THEN Num(1)
             ELSE IF c = baki_debet THEN Num(200 * i + j)
             ELSE Num(j)]
HistArray(h, i) ==
    List([j \in 1..h.n |-> HistElem(IF j = 1 THEN h.first ELSE 1, i, j)])

FacilityKeys(d) ==
    { nomor_rekening_fasilitas, id_jenis_fasilitas, id_jenis_pelapor, id_jenis_kredit,
      id_sifat_kredit, tunggakan_pokok, baki_debet }
        \cup (IF d.fk THEN {id_pelapor} ELSE {})
        \cup (IF d.hist.n >= 0 THEN {riwayat_fasilitas} ELSE {})
        \cup (IF d.coll >= 0 THEN {agunan} ELSE {})
        \cup (IF d.guar >= 0 THEN {penjamin} ELSE {})

\* The i-th object of report.fasilitas.
Facility(d, i) ==
    [c \in FacilityKeys(d) |->
        CASE c = nomor_rekening_fasilitas -> Num(7000 + i)
          [] c = id_jenis_fasilitas -> Str("F01")
          [] c = id_pelapor -> Str("P01")
          [] c = id_jenis_pelapor -> Str("JP1")
          [] c = id_jenis_kredit -> Str("JK1")
          [] c = id_sifat_kredit -> Str("SK1")
          [] c = tunggakan_pokok -> Num(d.arrears)
          [] c = baki_debet -> Num(500 + i)
          [] c = riwayat_fasilitas -> HistArray(d.hist, i)
          [] c = agunan -> Array(10 * i, d.coll)
          [] OTHER -> Array(50 + 10 * i, d.guar)]

IdKinds == {"full", "null_email", "no_npwp"}
IdValue(c) ==
    CASE c = report_header_ \o username -> Str("user1")
      [] c = report_debitur_ \o nomor_identitas -> Str("3171")
      [] c = report_header_ \o id_report -> Str("rep1")
      [] c = report_header_ \o tgl_permintaan -> Str("2024-01-31")
      [] c = report_debitur_ \o npwp -> Str("0912")
      [] c = report_debitur_ \o email -> Str("a@b.id")
      [] OTHER -> Str("0812")

ReportKeys(r) ==
    (cols_basic \ (IF r.ids = "no_npwp" THEN {report_debitur_ \o npwp} ELSE {}))
        \cup {report_debitur_ \o nama}
        \cup (IF r.scoring >= 0 THEN {scoring} ELSE {})
        \cup (IF r.hasfas THEN {report_fasilitas} ELSE {})
        \cup (IF r.inq >= 0
              THEN {report_permintaan_data, report_summary_permintaan_data,
                    report_riwayat_identitas_debitur}
              ELSE {})
        \cup (IF r.srd >= 0 THEN {report_summary_riwayat_debitur} ELSE {})

\* The row json_normalize makes of report r.
ReportRow(r) ==
    [c \in ReportKeys(r) |->
        CASE c = scoring -> Array(100, r.scoring)
          [] c = report_fasilitas ->
                List([i \in 1..Len(r.fas) |-> Facility(r.fas[i], i)])
          [] c = report_permintaan_data -> Array(200, r.inq)
          [] c = report_summary_permintaan_data -> Array(300, r.inq)
          [] c = report_riwayat_identitas_debitur -> Array(400, r.inq)
          [] c = report_summary_riwayat_debitur -> Array(600, r.srd)
          [] c = report_debitur_ \o nama -> Str("Budi")
          [] c = report_debitur_ \o email /\ r.ids = "null_email" -> None
          [] OTHER -> IdValue(c)]

load_json_data(r) == Frame(ReportKeys(r), <<ReportRow(r)>>)

FacBase ==
    [hist |-> [n |-> 1, first |-> 1], arrears |-> 0, coll |-> 1, guar |-> 1, fk |-> TRUE]
\* Facilities that differ in their history (the arrears matter only where the
\* history is empty), in their collateral and guarantors, and in whether they
\* carry id_pelapor.
FacHistory ==
    {[FacBase EXCEPT !.hist = h] : h \in HistSpec}
        \cup {[FacBase EXCEPT !.hist = [n |-> 0, first |-> 1], !.arrears = 1500]}
FacCollateral ==
    {[FacBase EXCEPT !.coll = c] : c \in ArrSpec}
        \cup {[FacBase EXCEPT !.guar = g] : g \in -1..0}
FacNoKey == {[FacBase EXCEPT !.fk = FALSE, !.coll = c] : c \in 0..1}

SeqsUpTo(S, n) == UNION {[1..k -> S] : k \in 1..n}
FacLists ==
    SeqsUpTo(FacHistory, MaxFac) \cup SeqsUpTo(FacCollateral, MaxFac)
        \cup SeqsUpTo(FacNoKey, 1)

Reports ==
    [ids : IdKinds, scoring : -1..1, srd : ArrSpec, inq : -1..1,
     hasfas : BOOLEAN, fas : {<<>>, <<FacBase>>}]
        \cup [ids : {"full"}, scoring : {1}, srd : {1}, inq : {1},
              hasfas : {TRUE}, fas : FacLists]

(***************************************************************************)
(* extract_pefindo_data, one action per table                              *)
(***************************************************************************)
NoTables == [t \in {} |-> EmptyFrame]
Put(d, name, df) == [t \in DOMAIN d \cup {name} |-> IF t = name THEN df ELSE d[t]]

\* dfs[name] = value, or the exception of the call leaves the function.
Step(name, value, next) ==
    /\ pc = name
    /\ IF value.ok
       THEN /\ dfs' = Put(dfs, name, value)
            /\ pc' = next
            /\ err' = err
       ELSE /\ pc' = "raised"
            /\ err' = name
            /\ dfs' = dfs
    /\ UNCHANGED <<json_df, arg_df, arg_column, arg_cols, all_rows, result, called,
                   columns>>

\* df[cols]: the columns picked, KeyError when one is missing.
Select(df, cols) ==
    IF ~(cols \subseteq df.cols) THEN Raise("KeyError")
    ELSE Frame(cols, [j \in 1..Len(df.rows) |-> [c \in cols |-> df.rows[j][c]]])

\* Lines 145-149.
information_summary(df) ==
    LET debitur_cols ==
            {c \in df.cols : Contains(c, report_debitur)}
                \cup { report_header_ \o username, report_header_ \o id_report,
                       report_header_ \o tgl_permintaan }
        picked == Select(df, debitur_cols)
    IN  IF picked.ok THEN clean_column_names(picked) ELSE picked

\* The facilities table of line 154 when that step has run.
Facilities == IF "pefindo_facilities" \in DOMAIN dfs THEN dfs["pefindo_facilities"] ELSE EmptyFrame

ExtractScoring ==
    Step("pefindo_scoring",
         extract_list_to_dataframe(json_df, scoring, cols_basic),
         "pefindo_information_summary")
ExtractInformationSummary ==
    Step("pefindo_information_summary", information_summary(json_df),
         "pefindo_facilities")
ExtractFacilities ==
    Step("pefindo_facilities",
         extract_list_to_dataframe(json_df, report_fasilitas, cols_basic),
         "pefindo_facilities_history")
ExtractFacilitiesHistory ==
    Step("pefindo_facilities_history", extract_facilities_history(Facilities),
         "pefindo_facilities_collateral")
ExtractFacilitiesCollateral ==
    Step("pefindo_facilities_collateral",
         extract_list_to_dataframe(Facilities, agunan, cols_facilities),
         "pefindo_facilities_guarantor")
ExtractFacilitiesGuarantor ==
    Step("pefindo_facilities_guarantor",
         extract_list_to_dataframe(Facilities, penjamin, cols_facilities),
         "pefindo_inquiry")
ExtractInquiry ==
    Step("pefindo_inquiry",
         extract_list_to_dataframe(json_df, report_permintaan_data, cols_basic),
         "pefindo_inquiry_summary")
ExtractInquirySummary ==
    Step("pefindo_inquiry_summary",
         extract_list_to_dataframe(json_df, report_summary_permintaan_data, cols_basic),
         "pefindo_information_history")
ExtractInformationHistory ==
    Step("pefindo_information_history",
         extract_list_to_dataframe(json_df, report_riwayat_identitas_debitur, cols_basic),
         "pefindo_collectibility_history")
ExtractCollectibilityHistory ==
    Step("pefindo_collectibility_history",
         extract_list_to_dataframe(json_df, report_summary_riwayat_debitur, cols_basic),
         "done")

NoCall ==
    /\ arg_df = EmptyFrame
    /\ arg_column = <<>>
    /\ arg_cols = {}
    /\ all_rows = <<>>
    /\ result = EmptyFrame
    /\ called = ""
NoPipeline ==
    /\ json_df = EmptyFrame
    /\ dfs = NoTables
    /\ pc = "idle"
    /\ err = ""

Init ==
    /\ json_df \in {load_json_data(r) : r \in Reports}
    /\ dfs = NoTables
    /\ pc = "pefindo_scoring"
    /\ err = ""
    /\ NoCall
    /\ columns = <<>>

Next ==
    \/ ExtractScoring
    \/ ExtractInformationSummary
    \/ ExtractFacilities
    \/ ExtractFacilitiesHistory
    \/ ExtractFacilitiesCollateral
    \/ ExtractFacilitiesGuarantor
    \/ ExtractInquiry
    \/ ExtractInquirySummary
    \/ ExtractInformationHistory
    \/ ExtractCollectibilityHistory

Spec == Init /\ [][Next]_vars

(***************************************************************************)
(* One call of extract_list_to_dataframe or extract_facilities_history on  *)
(* a table: a loaded report, the facilities table the expansion of a       *)
(* report yields, or the empty table.                                      *)
(***************************************************************************)
FacilityTables ==
    {extract_list_to_dataframe(
         load_json_data([ids |-> "full", scoring |-> 1, srd |-> 1, inq |-> 1,
                         hasfas |-> TRUE, fas |-> f]),
         report_fasilitas, cols_basic) : f \in FacLists}
        \cup {EmptyFrame}

Calls ==
    [df : {load_json_data(r) : r \in Reports},
     column : {scoring, report_fasilitas, report_summary_riwayat_debitur},
     cols : {cols_basic}]
        \cup [df : FacilityTables, column : {riwayat_fasilitas, agunan, penjamin},
              cols : {cols_facilities}]

InitCall ==
    /\ \E c \in Calls :
          /\ arg_df = c.df
          /\ arg_column = c.column
          /\ arg_cols = c.cols
    /\ all_rows = <<>>
    /\ result = EmptyFrame
    /\ called = ""
    /\ NoPipeline
    /\ columns = <<>>

CallExpand ==
    /\ called = ""
    /\ LET loop == expand_all_rows(arg_df, arg_column, arg_cols)
       IN  /\ all_rows' = loop.frames
           /\ result' = ExpandResult(loop)
    /\ called' = "extract_list_to_dataframe"
    /\ UNCHANGED <<json_df, dfs, pc, err, arg_df, arg_column, arg_cols, columns>>

CallReconcile ==
    /\ called = ""
    /\ arg_column = riwayat_fasilitas
    /\ LET loop == history_all_rows(arg_df)
       IN  /\ all_rows' = loop.frames
           /\ result' = HistoryResult(loop)
    /\ called' = "extract_facilities_history"
    /\ UNCHANGED <<json_df, dfs, pc, err, arg_df, arg_column, arg_cols, columns>>

NextCall == CallExpand \/ CallReconcile

SpecCall == InitCall /\ [][NextCall]_vars

(***************************************************************************)
(* clean_column_names alone, applied twice to a table of one column whose  *)
(* label is made of up to MaxFrags pieces of the two prefixes.             *)
(***************************************************************************)
Frags ==
    { report_debitur_, report_header_,
      <<"r", "e", "p", "o", "r", "t", ".", "d", "e", "b">>, <<"i", "t", "u", "r", ".">>,
      npwp }

RECURSIVE Join(_)
Join(pieces) == IF pieces = <<>> THEN <<>> ELSE Head(pieces) \o Join(Tail(pieces))

Labels == {Join(p) : p \in SeqsUpTo(Frags, MaxFrags)}

InitNames ==
    /\ columns \in {<<{c}>> : c \in Labels}
    /\ NoCall
    /\ NoPipeline

CleanColumns ==
    /\ Len(columns) <= 2
    /\ columns' = Append(columns,
                         clean_column_names(Frame(columns[Len(columns)], <<>>)).cols)
    /\ UNCHANGED <<json_df, dfs, pc, err, arg_df, arg_column, arg_cols, all_rows,
                   result, called>>

NextNames == CleanColumns

SpecNames == InitNames /\ [][NextNames]_vars

(***************************************************************************)
(* Properties.                                                             *)
(***************************************************************************)
RECURSIVE Sum(_)
Sum(ns) == IF ns = <<>> THEN 0 ELSE Head(ns) + Sum(Tail(ns))
\* The rows that the rows before i of a table contribute, given each row's count.
Before(ns, i) == Sum(SubSeq(ns, 1, i - 1))
IsList(df, col, i) == col \in df.cols /\ df.rows[i][col].k = "list"
ArrLen(df, col, i) == IF IsList(df, col, i) THEN Len(df.rows[i][col].l) ELSE 0
AllLists(df, col) == col \in df.cols /\ \A i \in 1..Len(df.rows) : IsList(df, col, i)
Expanded == called = "extract_list_to_dataframe"
Reconciled == called = "extract_facilities_history"

\* C2 ------------------------------------------------------------------------
C2_Lens == [i \in 1..Len(arg_df.rows) |-> ArrLen(arg_df, arg_column, i)]

\* C2: extract_list_to_dataframe on a table whose array column holds arrays and
\* that has the carry columns returns one row per array element, the arrays in
\* parent-row order and each array in its own order (so sum-of-lengths rows, an
\* empty array giving none); every result row holds its element's values and,
\* under the cleaned carry names, the values of the parent row it came from.
C2_ExpandConcatenates ==
    (Expanded /\ AllLists(arg_df, arg_column) /\ arg_cols \subseteq arg_df.cols)
        => /\ result.ok
           /\ Len(result.rows) = Sum(C2_Lens)
           /\ \A i \in 1..Len(arg_df.rows) : \A j \in 1..C2_Lens[i] :
                 LET row == result.rows[Before(C2_Lens, i) + j]
                     elem == arg_df.rows[i][arg_column].l[j]
                 IN  /\ \A c \in arg_cols :
                           /\ clean_name(c) \in result.cols
                           /\ row[clean_name(c)] = arg_df.rows[i][c]
                     /\ \A key \in DOMAIN elem \ arg_cols :
                           /\ clean_name(key) \in result.cols
                           /\ row[clean_name(key)] = elem[key]

\* The spec's example: rows [r0 with 2 elements, r1 with 0 elements] gave 2 rows.
C2_Witness ==
    /\ Expanded
    /\ AllLists(arg_df, arg_column)
    /\ C2_Lens = <<2, 0>>
    /\ result.ok
    /\ Len(result.rows) = 2

\* C3 ------------------------------------------------------------------------
C3_Lens == [i \in 1..Len(arg_df.rows) |-> ArrLen(arg_df, riwayat_fasilitas, i)]
C3_Counts == [i \in 1..Len(arg_df.rows) |-> IF C3_Lens[i] > 0 THEN C3_Lens[i] ELSE 1]
\* A facility table with a row, a history array on every row and all it needs
\* besides: the carry columns and tunggakan_pokok.
C3_FacilityTable ==
    /\ Reconciled
    /\ Len(arg_df.rows) >= 1
    /\ AllLists(arg_df, riwayat_fasilitas)
    /\ cols_to_add_history \cup {tunggakan_pokok} \subseteq arg_df.cols
C3_RowsAsClaimed ==
    /\ result.ok
    /\ Len(result.rows) = Sum(C3_Counts)
    /\ \A i \in 1..Len(arg_df.rows) :
          LET at == Before(C3_Counts, i)
              fks == \A c \in cols_to_add_history :
                        \A j \in 1..C3_Counts[i] :
                            result.rows[at + j][c] = arg_df.rows[i][c]
          IN  IF C3_Lens[i] > 0
              THEN /\ fks
                   /\ \A j \in 1..C3_Lens[i] :
                         LET elem == arg_df.rows[i][riwayat_fasilitas].l[j]
                         IN  \A key \in DOMAIN elem \ cols_to_add_history :
                                 result.rows[at + j][key] = elem[key]
              ELSE /\ fks
                   /\ result.rows[at + 1][snapshot_order] = Num(1)

C4_FirstHistory ==
    CHOOSE i \in 1..Len(arg_df.rows) :
        /\ C3_Lens[i] > 0
        /\ \A j \in 1..(i - 1) : C3_Lens[j] = 0
C4_ReferenceKeys == DOMAIN arg_df.rows[C4_FirstHistory][riwayat_fasilitas].l[1]
C4_Added == {snapshot_order, status_tunggakan}
C4_Arrears(i) == arg_df.rows[i][tunggakan_pokok].n

\* C4: after extract_facilities_history returns, the frame appended for a
\* facility with an empty history is one row over exactly the facility columns
\* named by the keys of the first element of the first non-empty history, the
\* two added fields and the carried columns; snapshot_order is 1,
\* status_tunggakan is 1 when that facility's tunggakan_pokok is > 0 and else 0,
\* the carried and the matching columns hold that facility's values, and the
\* returned table holds the same row at the facility's place.
C4_SynthesizedRow ==
    (Reconciled /\ result.ok)
        => \A i \in 1..Len(arg_df.rows) :
              C3_Lens[i] = 0
                  => LET frame == all_rows[i]
                         row == frame.rows[1]
                         matching == (arg_df.cols \cap C4_ReferenceKeys)
                         flag == IF C4_Arrears(i) > 0 THEN 1 ELSE 0
                     IN  /\ Len(frame.rows) = 1
                         /\ frame.cols = matching \cup C4_Added \cup cols_to_add_history
                         /\ row[snapshot_order] = Num(1)
                         /\ row[status_tunggakan] = Num(flag)
                         /\ \A c \in cols_to_add_history : row[c] = arg_df.rows[i][c]
                         /\ \A c \in matching \ (C4_Added \cup cols_to_add_history) :
                               row[c] = arg_df.rows[i][c]
                         /\ \A c \in frame.cols :
                               result.rows[Before(C3_Counts, i) + 1][c] = row[c]

\* An empty history with arrears 1500 after a first history whose keys are not
\* those of the facility with the arrears.
C4_Witness ==
    /\ Reconciled
    /\ result.ok
    /\ \E i \in 1..Len(arg_df.rows) :
          /\ C3_Lens[i] = 0
          /\ C4_Arrears(i) = 1500
          /\ all_rows[i].rows[1][status_tunggakan] = Num(1)
          /\ baki_debet \in all_rows[i].cols
          /\ tunggakan_pokok \notin all_rows[i].cols

\* C9 ------------------------------------------------------------------------
C9_ColumnAbsent == arg_column \notin arg_df.cols
C9_CarryAbsent == ~(arg_cols \subseteq arg_df.cols)
C9_SomeArray == \E i \in 1..Len(arg_df.rows) : ArrLen(arg_df, arg_column, i) > 0

\* C9 as stated: the call raises whenever the array column or a carry column is
\* absent, whatever the rows.
C9_AlwaysFails == (Expanded /\ (C9_ColumnAbsent \/ C9_CarryAbsent)) => ~result.ok

\* C9 amended: the call raises KeyError when the array column is absent and the
\* table has a row, and raises when a carry column is absent and some row's
\* array is non-empty; a table without rows, and a table whose arrays are all
\* empty lists, give the empty table even if those columns are absent.
C9_FailsWhenRead ==
    Expanded
        => /\ (C9_ColumnAbsent /\ Len(arg_df.rows) >= 1)
                 => (~result.ok /\ result.exc = "KeyError")
           /\ (~C9_ColumnAbsent /\ C9_CarryAbsent /\ C9_SomeArray) => ~result.ok
           /\ Len(arg_df.rows) = 0 => result = EmptyFrame
           /\ (AllLists(arg_df, arg_column) /\ ~C9_SomeArray) => result = EmptyFrame

C9_Witness ==
    /\ Expanded
    /\ C9_CarryAbsent
    /\ Len(arg_df.rows) >= 1
    /\ AllLists(arg_df, arg_column)
    /\ result = EmptyFrame

\* C10 -----------------------------------------------------------------------
\* C10 as stated: a call in which no row contributed returns the empty table
\* without columns, and each call the orchestrator makes on the empty
\* facilities table (agunan, penjamin, the history) returns an empty table.
C10_EmptyDownstream ==
    /\ (Expanded /\ result.ok /\ all_rows = <<>>) => result = EmptyFrame
    /\ (called # "" /\ arg_df = EmptyFrame)
          => (result.ok /\ Len(result.rows) = 0)

\* C10 amended: the same for extract_list_to_dataframe (agunan, penjamin);
\* extract_facilities_history on the empty facilities table raises KeyError.
C10_EmptyExpandOnly ==
    /\ (Expanded /\ result.ok /\ all_rows = <<>>) => result = EmptyFrame
    /\ (Expanded /\ arg_df = EmptyFrame) => result = EmptyFrame
    /\ (Reconciled /\ arg_df = EmptyFrame)
          => (~result.ok /\ result.exc = "KeyError")

C10_Witness ==
    /\ Expanded
    /\ arg_df = EmptyFrame
    /\ arg_column = agunan
    /\ arg_cols = cols_facilities
    /\ result = EmptyFrame

\* C7 ------------------------------------------------------------------------
\* C7: a second clean_column_names leaves every column name as the first left it.
C7_Idempotent == Len(columns) = 3 => columns[3] = columns[2]

\* C8 ------------------------------------------------------------------------
C8_Prefixes == {report_debitur_, report_header_}
C8_Prefixed(c) == \E p \in C8_Prefixes : StartsWith(c, p)
RECURSIVE C8_Stripped(_)
\* The names left by removing one leading prefix of c, or several in a row.
C8_Stripped(c) ==
    UNION { LET rest == SubSeq(c, Len(p) + 1, Len(c))
            IN  {rest} \cup C8_Stripped(rest)
            : p \in {q \in C8_Prefixes : StartsWith(c, q)} }

\* C8: clean_column_names returns a name that starts with neither prefix as it
\* is, and of a name that starts with one only removes leading prefixes.
C8_OnlyPrefixStripped ==
    Len(columns) >= 2
        => \A c \in columns[1] :
              columns[2] \subseteq (IF C8_Prefixed(c) THEN C8_Stripped(c) ELSE {c})

\* C1 ------------------------------------------------------------------------
ChildTables ==
    { "pefindo_scoring", "pefindo_facilities", "pefindo_facilities_history",
      "pefindo_facilities_collateral", "pefindo_facilities_guarantor", "pefindo_inquiry",
      "pefindo_inquiry_summary", "pefindo_information_history",
      "pefindo_collectibility_history" }
IdentifierColumns == {username, nomor_identitas, id_report, tgl_permintaan, npwp, email, telepon}
\* The path of an identifier in the loaded report.
C1_Path(c) ==
    IF c \in {username, id_report, tgl_permintaan}
    THEN report_header_ \o c ELSE report_debitur_ \o c
C1_Carried(row, cols, c) ==
    /\ c \in cols
    /\ C1_Path(c) \in json_df.cols
    /\ row[c] = json_df.rows[1][C1_Path(c)]

\* C1 as stated: every row of every child table built holds, for each of the
\* seven identifiers, a non-null value equal to the report's.
C1_NonNullIdentifiers ==
    \A t \in DOMAIN dfs \cap ChildTables : \A j \in 1..Len(dfs[t].rows) :
        \A c \in IdentifierColumns :
            /\ C1_Carried(dfs[t].rows[j], dfs[t].cols, c)
            /\ dfs[t].rows[j][c].k \notin {"none", "nan"}

\* C1 amended: every row of every child table built holds, for each of the
\* seven identifiers, the report's value: null where the report's is null.
C1_ParentIdentifiers ==
    \A t \in DOMAIN dfs \cap ChildTables : \A j \in 1..Len(dfs[t].rows) :
        \A c \in IdentifierColumns :
            C1_Carried(dfs[t].rows[j], dfs[t].cols, c)

C1_Witness ==
    /\ pc = "done"
    /\ json_df.rows[1][report_debitur_ \o email] = None
    /\ Len(dfs["pefindo_facilities_history"].rows) >= 1
    /\ Len(dfs["pefindo_facilities_collateral"].rows) >= 1
    /\ dfs["pefindo_facilities_collateral"].rows[1][email] = None

\* C5 ------------------------------------------------------------------------
C5_Facilities ==
    IF report_fasilitas \in json_df.cols THEN json_df.rows[1][report_fasilitas].l ELSE <<>>
C5_HasAgunan(i) == agunan \in DOMAIN C5_Facilities[i]
C5_Lens ==
    [i \in 1..Len(C5_Facilities) |->
        IF C5_HasAgunan(i) THEN Len(C5_Facilities[i][agunan].l) ELSE 0]
C5_FacilityKeys ==
    { nomor_rekening_fasilitas, id_jenis_fasilitas, id_pelapor, id_jenis_pelapor,
      id_jenis_kredit, id_sifat_kredit }
C5_Built == "pefindo_facilities_collateral" \in DOMAIN dfs
C5_RowsAsClaimed ==
    LET t == dfs["pefindo_facilities_collateral"]
    IN  /\ Len(t.rows) = Sum(C5_Lens)
        /\ \A i \in 1..Len(C5_Facilities) : \A j \in 1..C5_Lens[i] :
              LET row == t.rows[Before(C5_Lens, i) + j]
              IN  /\ row[kode] = C5_Facilities[i][agunan].l[j][kode]
                  /\ \A c \in C5_FacilityKeys :
                        /\ c \in t.cols
                        /\ c \in DOMAIN C5_Facilities[i]
                        /\ row[c] = C5_Facilities[i][c]

\* C5 as stated: whether a facility's agunan is absent, empty or not, the
\* collateral step raises nothing and its table has one row per agunan element
\* (an absent agunan counting 0), each with the keys of its own facility.
C5_AbsentCountsZero ==
    /\ err # "pefindo_facilities_collateral"
    /\ C5_Built => C5_RowsAsClaimed

\* C5 amended: the collateral table is built only of a report whose facilities
\* all have an agunan array, and then has one row per agunan element, each with
\* the keys of its own facility; if a facility has no agunan the step raises.
C5_AgunanPresent ==
    /\ C5_Built => ((\A i \in 1..Len(C5_Facilities) : C5_HasAgunan(i)) /\ C5_RowsAsClaimed)
    /\ err = "pefindo_facilities_collateral"
          => \E i \in 1..Len(C5_Facilities) : ~C5_HasAgunan(i)

C5_Witness ==
    /\ C5_Built
    /\ C5_Lens = <<2, 1>>
    /\ Len(dfs["pefindo_facilities_collateral"].rows) = 3

\* C6 ------------------------------------------------------------------------
C6_Summary ==
    IF report_summary_riwayat_debitur \notin json_df.cols THEN "absent"
    ELSE IF json_df.rows[1][report_summary_riwayat_debitur].l = <<>> THEN "empty"
    ELSE "filled"
C6_Step == "pefindo_collectibility_history"

\* C6 as stated: with report.summary_riwayat_debitur absent or empty the last
\* step raises nothing and the table returned has no rows.
C6_AbsentOrEmpty ==
    C6_Summary \in {"absent", "empty"}
        => /\ err # C6_Step
           /\ pc = "done" => Len(dfs[C6_Step].rows) = 0

\* C6 amended: with an empty report.summary_riwayat_debitur the last step
\* raises nothing and the table returned is the empty table; with the key
\* absent the step raises and extraction returns nothing.
C6_EmptyOnly ==
    /\ C6_Summary = "empty"
          => /\ err # C6_Step
             /\ pc = "done" => dfs[C6_Step] = EmptyFrame
    /\ C6_Summary = "absent"
          => /\ pc # "done"
             /\ ("pefindo_information_history" \in DOMAIN dfs /\ pc # C6_Step)
                   => (pc = "raised" /\ err = C6_Step)

C6_Witness ==
    /\ pc = "done"
    /\ C6_Summary = "empty"
    /\ dfs[C6_Step] = EmptyFrame
====
